---- MODULE Spec2Model ----
(***************************************************************************)
(* Model of nova's registry API (src/src/core/api.ts): the per-collection  *)
(* link, reducer and expander storages and the calls that write and read   *)
(* them, and of the Hypernova executor's store-operation accounting as the *)
(* documentation (src/docs/index.md) and the specification describe it.    *)
(***************************************************************************)
EXTENDS Integers, Sequences, FiniteSets, TLC

\* ------------------------------------------------------------------ bounds

\* Most documents one node's fetch returns.
MaxDocs == 2
\* Distinct linking-key values documents carry.
MaxKey == 2
\* Distinct link / reducer / expander configurations a caller may pass.
MaxConfig == 2
\* Longest data object (number of own keys) passed to one add* call.
MaxKeys == 2
\* Longest sequence of API calls of one run.
MaxCalls == 3

\* ------------------------------------------------------------ value domain

Collections == {"A", "B"}

\* Names that are not properties of Object.prototype.
PlainNames == {"x", "y"}

\* Names every plain object ({}) inherits from Object.prototype.
ProtoNames == {"constructor"}

Names == PlainNames \cup ProtoNames

Configs == 1..MaxConfig

\* JavaScript values that can sit in, or be read from, a storage object.
Undefined == [kind |-> "undefined"]

ConfigValue(cfg) == [kind |-> "config", id |-> cfg]

\* new Linker(collection, linkName, {...DEFAULTS, ...linkConfig})
NewLinker(c, linkName, cfg) ==
    [kind |-> "linker", collection |-> c, linkName |-> linkName, config |-> cfg]

\* The function Object.prototype carries under an inherited name.
ProtoValue(name) == [kind |-> "function", name |-> name]

\* JavaScript truthiness of the values above: only undefined is falsy.
Truthy(v) == v.kind # "undefined"

\* A storage slot of a collection: absent (undefined) or a plain object with
\* its own keys.
NoStorage == [defined |-> FALSE, own |-> [k \in {} |-> Undefined]]

EmptyObject == [defined |-> TRUE, own |-> [k \in {} |-> Undefined]]

\* obj[name] on a plain object: own property, else the prototype chain.
Get(storage, name) ==
    IF name \in DOMAIN storage.own THEN storage.own[name]
    ELSE IF name \in ProtoNames THEN ProtoValue(name)
    ELSE Undefined

\* Object.assign(obj, {[name]: value})
ObjectAssign(storage, name, value) ==
    [defined |-> TRUE,
     own |-> [k \in (DOMAIN storage.own) \cup {name} |->
                 IF k = name THEN value ELSE storage.own[k]]]

\* if (!collection[X_STORAGE]) collection[X_STORAGE] = {}
EnsureStorage(storage) == IF storage.defined THEN storage ELSE EmptyObject

\* The data objects of a call: own enumerable keys in insertion order, each
\* with its configuration.
RECURSIVE SeqsUpTo(_, _)
SeqsUpTo(S, n) ==
    IF n = 0 THEN {<<>>}
    ELSE LET shorter == SeqsUpTo(S, n - 1)
         IN shorter \cup {Append(s, e) : s \in {t \in shorter : Len(t) = n - 1}, e \in S}

DistinctKeys(data) ==
    \A i, j \in 1..Len(data) : i # j => data[i].name # data[j].name

DataObjects ==
    {d \in SeqsUpTo([name : Names, config : Configs], MaxKeys) :
        Len(d) >= 1 /\ DistinctKeys(d)}

KeysOf(data) == {data[i].name : i \in 1..Len(data)}

\* The value of `this` inside addLinks: undefined for a plain call of the
\* imported function in a strict-mode module, the module's exports object
\* when the build emits a member call (api.addLinks(...)).
ThisBindings == {"undefined", "exports"}

\* LINK_STORAGE, REDUCER_STORAGE, EXPANDER_STORAGE: the three storage slots of
\* every collection. last: the latest API call and what it did. calls: how
\* many calls were made. race: the registration calls two callers have issued
\* and not yet run (empty when no two callers compete).
\* tree: the compiled request tree of the query being executed (empty when
\* none is). phase, issued, docs: per node of the tree, how far its fetch is,
\* how many store operations were issued for it, and the documents it fetched.
\* query: where the query stands (status), the errors it surfaced to its
\* caller and what failed. assembled: the result handed to the caller.
VARIABLES LINK_STORAGE, REDUCER_STORAGE, EXPANDER_STORAGE, last, calls, race,
          tree, phase, issued, docs, query, assembled

registryVars == <<LINK_STORAGE, REDUCER_STORAGE, EXPANDER_STORAGE, last, calls, race>>

execVars == <<tree, phase, issued, docs, query, assembled>>

vars == <<registryVars, execVars>>

storages == <<LINK_STORAGE, REDUCER_STORAGE, EXPANDER_STORAGE>>

\* What a call did: returned (with a value) or threw (an error).
Returned(v) == [outcome |-> "return", error |-> "none", value |-> v]

Threw(e) == [outcome |-> "throw", error |-> e, value |-> Undefined]

CallRecord(op, c, data, name, result) ==
    [op |-> op, collection |-> c, data |-> data, name |-> name,
     outcome |-> result.outcome, error |-> result.error, value |-> result.value]

NoCall == CallRecord("none", "A", <<>>, "x", Returned(Undefined))

\* A query's standing: its status ("idle", "compiling", "running", "failed",
\* "done"), how many errors it surfaced, the kind of failure and the node
\* whose fetch failed (0 when none did).
QueryState(status, errors, failure, failedNode) ==
    [status |-> status, errors |-> errors, failure |-> failure, failedNode |-> failedNode]

NoQuery == QueryState("idle", 0, "none", 0)

\* Nothing was handed to the caller.
NoResult == <<>>

\* ------------------------------------------------------------- operations

\* addLinks without its guard: a later registration replaces the linker.
LinkNameTaken_Never(storage, linkName) == FALSE

\* collection[LINK_STORAGE][linkName], the guard of addLinks' throw.
LinkNameTaken(storage, linkName) == Truthy(Get(storage, linkName))

\* The throw statement of addLinks: its message reads this.collectionName,
\* which is itself a TypeError when `this` is undefined.
LinkConflict(thisArg) ==
    IF thisArg = "undefined" THEN Threw("TypeError") ELSE Threw("LinkAlreadyAdded")

\* _.forEach(data, (linkConfig, linkName) => {...}) of addLinks, from key i on.
RECURSIVE ForEachLink(_, _, _, _, _)
ForEachLink(storage, c, data, i, thisArg) ==
    IF i > Len(data) THEN [storage |-> storage, result |-> Returned(Undefined)]
    ELSE IF LinkNameTaken(storage, data[i].name)
         THEN [storage |-> storage, result |-> LinkConflict(thisArg)]
         ELSE ForEachLink(
                ObjectAssign(storage, data[i].name,
                             NewLinker(c, data[i].name, data[i].config)),
                c, data, i + 1, thisArg)

\* collection[EXPANDER_STORAGE][expanderName], the guard of addExpanders' throw.
ExpanderNameTaken(storage, expanderName) == Truthy(Get(storage, expanderName))

\* _.forEach(data, (expanderConfig, expanderName) => {...}) of addExpanders.
RECURSIVE ForEachExpander(_, _, _)
ForEachExpander(storage, data, i) ==
    IF i > Len(data) THEN [storage |-> storage, result |-> Returned(Undefined)]
    ELSE IF ExpanderNameTaken(storage, data[i].name)
         THEN [storage |-> storage, result |-> Threw("ExpanderAlreadyAdded")]
         ELSE ForEachExpander(
                ObjectAssign(storage, data[i].name, ConfigValue(data[i].config)),
                data, i + 1)

getLinkerIn(linkStorage, name) ==
    IF linkStorage.defined /\ Truthy(Get(linkStorage, name))
    THEN Returned(Get(linkStorage, name))
    ELSE Threw("LinkNotFound")

hasLinkerIn(linkStorage, name) ==
    IF linkStorage.defined THEN Truthy(Get(linkStorage, name)) ELSE FALSE

\* linker.getLookupAggregationPipeline(options): a method of Linker only.
lookupIn(linkStorage, name) ==
    LET got == getLinkerIn(linkStorage, name)
    IN IF got.outcome = "throw" THEN got
       ELSE IF got.value.kind = "linker"
            THEN Returned([kind |-> "pipeline", of |-> got.value])
            ELSE Threw("TypeError")

getConfigIn(storage, name) ==
    IF storage.defined THEN Get(storage, name) ELSE Undefined

getLinker(c, name) == getLinkerIn(LINK_STORAGE[c], name)

hasLinker(c, name) == hasLinkerIn(LINK_STORAGE[c], name)

lookup(c, linkName) == lookupIn(LINK_STORAGE[c], linkName)

getReducerConfig(c, name) == getConfigIn(REDUCER_STORAGE[c], name)

getExpanderConfig(c, name) == getConfigIn(EXPANDER_STORAGE[c], name)

\* addReducers without its hasLinker guard: a reducer may take a link's name.
ReducerIsLink_Unchecked(linkStorage, reducerName) == FALSE

\* The two guards of addReducers' loop body, in the code's order.
ReducerIsLink(linkStorage, reducerName) == hasLinkerIn(linkStorage, reducerName)

ReducerNameTaken(storage, reducerName) == Truthy(Get(storage, reducerName))

\* Object.keys(data).forEach((reducerName) => {...}) of addReducers.
RECURSIVE ForEachReducer(_, _, _, _)
ForEachReducer(storage, linkStorage, data, i) ==
    IF i > Len(data) THEN [storage |-> storage, result |-> Returned(Undefined)]
    ELSE IF ReducerIsLink(linkStorage, data[i].name)
         THEN [storage |-> storage, result |-> Threw("ReducerIsLink")]
         ELSE IF ReducerNameTaken(storage, data[i].name)
              THEN [storage |-> storage, result |-> Threw("ReducerAlreadyAdded")]
              ELSE ForEachReducer(
                     ObjectAssign(storage, data[i].name, ConfigValue(data[i].config)),
                     linkStorage, data, i + 1)

\* ----------------------------------------------------------------- actions

Init ==
    /\ LINK_STORAGE = [c \in Collections |-> NoStorage]
    /\ REDUCER_STORAGE = [c \in Collections |-> NoStorage]
    /\ EXPANDER_STORAGE = [c \in Collections |-> NoStorage]
    /\ last = NoCall
    /\ calls = 0
    /\ race = <<>>
    /\ tree = <<>> /\ phase = <<>> /\ issued = <<>> /\ docs = <<>>
    /\ query = NoQuery /\ assembled = NoResult

\* A clear that resets one registry shared by all collections.
clear_Everywhere(c) ==
    /\ calls < MaxCalls
    /\ LINK_STORAGE' = [b \in Collections |-> EmptyObject]
    /\ REDUCER_STORAGE' = [b \in Collections |-> EmptyObject]
    /\ EXPANDER_STORAGE' = [b \in Collections |-> EmptyObject]
    /\ last' = CallRecord("clear", c, <<>>, "-", Returned(Undefined))
    /\ calls' = calls + 1

clear(c) ==
    /\ calls < MaxCalls
    /\ LINK_STORAGE' = [LINK_STORAGE EXCEPT ![c] = EmptyObject]
    /\ REDUCER_STORAGE' = [REDUCER_STORAGE EXCEPT ![c] = EmptyObject]
    /\ EXPANDER_STORAGE' = [EXPANDER_STORAGE EXCEPT ![c] = EmptyObject]
    /\ last' = CallRecord("clear", c, <<>>, "-", Returned(Undefined))
    /\ calls' = calls + 1

addLinks(c, data, thisArg) ==
    /\ calls < MaxCalls
    /\ LET r == ForEachLink(EnsureStorage(LINK_STORAGE[c]), c, data, 1, thisArg)
       IN /\ LINK_STORAGE' = [LINK_STORAGE EXCEPT ![c] = r.storage]
          /\ last' = CallRecord("addLinks", c, data, "-", r.result)
    /\ calls' = calls + 1
    /\ UNCHANGED <<REDUCER_STORAGE, EXPANDER_STORAGE>>

addExpanders(c, data) ==
    /\ calls < MaxCalls
    /\ LET r == ForEachExpander(EnsureStorage(EXPANDER_STORAGE[c]), data, 1)
       IN /\ EXPANDER_STORAGE' = [EXPANDER_STORAGE EXCEPT ![c] = r.storage]
          /\ last' = CallRecord("addExpanders", c, data, "-", r.result)
    /\ calls' = calls + 1
    /\ UNCHANGED <<LINK_STORAGE, REDUCER_STORAGE>>

addReducers(c, data) ==
    /\ calls < MaxCalls
    /\ LET r == ForEachReducer(EnsureStorage(REDUCER_STORAGE[c]), LINK_STORAGE[c], data, 1)
       IN /\ REDUCER_STORAGE' = [REDUCER_STORAGE EXCEPT ![c] = r.storage]
          /\ last' = CallRecord("addReducers", c, data, "-", r.result)
    /\ calls' = calls + 1
    /\ UNCHANGED <<LINK_STORAGE, EXPANDER_STORAGE>>

\* A read that creates the link storage it finds missing.
Read_Initialising(op, c, name, result) ==
    /\ calls < MaxCalls
    /\ last' = CallRecord(op, c, <<>>, name, result)
    /\ calls' = calls + 1
    /\ LINK_STORAGE' = [LINK_STORAGE EXCEPT ![c] = EnsureStorage(LINK_STORAGE[c])]
    /\ UNCHANGED <<REDUCER_STORAGE, EXPANDER_STORAGE>>

\* A read call: nothing is assigned; `last` keeps what the caller got.
Read(op, c, name, result) ==
    /\ calls < MaxCalls
    /\ last' = CallRecord(op, c, <<>>, name, result)
    /\ calls' = calls + 1
    /\ UNCHANGED storages

callGetLinker(c, name) == Read("getLinker", c, name, getLinker(c, name))

callHasLinker(c, name) ==
    Read("hasLinker", c, name, Returned([kind |-> "boolean", b |-> hasLinker(c, name)]))

callLookup(c, name) == Read("lookup", c, name, lookup(c, name))

callGetReducerConfig(c, name) ==
    Read("getReducerConfig", c, name, Returned(getReducerConfig(c, name)))

callGetExpanderConfig(c, name) ==
    Read("getExpanderConfig", c, name, Returned(getExpanderConfig(c, name)))

\* One caller at a time: any sequence of API calls.
Next ==
    /\ UNCHANGED <<race, execVars>>
    /\ \/ \E c \in Collections : clear(c)
       \/ \E c \in Collections, data \in DataObjects, thisArg \in ThisBindings :
             addLinks(c, data, thisArg)
       \/ \E c \in Collections, data \in DataObjects : addExpanders(c, data)
       \/ \E c \in Collections, data \in DataObjects : addReducers(c, data)
       \/ \E c \in Collections, name \in Names : callGetLinker(c, name)
       \/ \E c \in Collections, name \in Names : callHasLinker(c, name)
       \/ \E c \in Collections, name \in Names : callLookup(c, name)
       \/ \E c \in Collections, name \in Names : callGetReducerConfig(c, name)
       \/ \E c \in Collections, name \in Names : callGetExpanderConfig(c, name)

Spec == Init /\ [][Next]_vars

\* ------------------------------------------------- two competing callers

\* Two callers register the same name on the same collection, each with its
\* own configuration. The functions of api.ts are synchronous, so the event
\* loop runs each call to completion: the interleavings are the two orders.
RaceOps == {"addLinks", "addReducers"}

RacedCall(op, c, name, cfg) ==
    [op |-> op, collection |-> c, name |-> name, config |-> cfg, status |-> "pending"]

InitRace ==
    /\ \E c \in Collections, fresh \in BOOLEAN :
          LET slot == [d \in Collections |->
                         IF d = c /\ ~fresh THEN EmptyObject ELSE NoStorage]
          IN /\ LINK_STORAGE = slot
             /\ REDUCER_STORAGE = slot
             /\ EXPANDER_STORAGE = slot
    /\ last = NoCall
    /\ calls = 0
    /\ \E op \in RaceOps, c \in Collections, name \in Names, cfg1, cfg2 \in Configs :
          race = <<RacedCall(op, c, name, cfg1), RacedCall(op, c, name, cfg2)>>
    /\ tree = <<>> /\ phase = <<>> /\ issued = <<>> /\ docs = <<>>
    /\ query = NoQuery /\ assembled = NoResult

RunRaced(i, thisArg) ==
    /\ race[i].status = "pending"
    /\ LET call == race[i]
           data == <<[name |-> call.name, config |-> call.config]>>
       IN IF call.op = "addLinks"
          THEN addLinks(call.collection, data, thisArg)
          ELSE addReducers(call.collection, data)
    /\ race' = [race EXCEPT ![i].status = last'.outcome]
    /\ UNCHANGED execVars

NextRace == \E i \in DOMAIN race, thisArg \in ThisBindings : RunRaced(i, thisArg)

SpecRace == InitRace /\ [][NextRace]_vars

\* ------------------------------------------------- Hypernova: the executor

\* A collection node of a compiled request tree: its parent (0 for the root),
\* whether its $ block is a function of the parent (dynamic), whether it
\* declares limit or skip, and whether its relation is unique.
RequestNode(parent, dynamic, paged, unique) ==
    [parent |-> parent, dynamic |-> dynamic, paged |-> paged, unique |-> unique]

RootNode == RequestNode(0, FALSE, FALSE, TRUE)

\* The shapes of the request trees executed: each node's parent, nodes
\* numbered parent before child (a lone root, one child, two siblings, a
\* chain of three).
TreeShapes == {<<0>>, <<0, 1>>, <<0, 1, 1>>, <<0, 1, 2>>}

Trees ==
    UNION {{t \in [1..Len(shape) -> [parent : 0..Len(shape), dynamic : BOOLEAN,
                                      paged : BOOLEAN, unique : BOOLEAN]] :
               /\ t[1] = RootNode
               /\ \A n \in 1..Len(shape) : t[n].parent = shape[n]}
           : shape \in TreeShapes}

\* What a fetch returns: documents, each one standing for the key value that
\* links it to the nodes below, listed in key order (the order plays no part
\* in how many operations are issued).
FetchResults ==
    {r \in SeqsUpTo(1..MaxKey, MaxDocs) : \A i \in 1..(Len(r) - 1) : r[i] <= r[i + 1]}

Nodes == DOMAIN tree

Children(n) == {m \in Nodes : tree[m].parent = n}

\* The deduplicated set of key values referenced across the parent documents.
ParentKeys(parentDocs) == {parentDocs[i] : i \in 1..Len(parentDocs)}

\* A static node whose limit/skip on a one-to-many relation cannot be batched.
UnbatchablePagination(node) == ~node.dynamic /\ node.paged /\ ~node.unique

\* An executor without batching: every node below the root is fetched once per
\* parent document.
OpsFor_PerParent(node, parentDocs) ==
    IF node.parent = 0 THEN 1 ELSE Len(parentDocs)

\* An executor that batches a dynamic node like a static one.
OpsFor_DynamicBatched(node, parentDocs) ==
    IF node.parent = 0 \/ node.dynamic THEN 1
    ELSE IF UnbatchablePagination(node) THEN Cardinality(ParentKeys(parentDocs))
    ELSE 1

\* An executor that applies one global limit/skip across all parents.
OpsFor_PaginationBatched(node, parentDocs) ==
    IF node.parent = 0 THEN 1
    ELSE IF node.dynamic THEN Len(parentDocs)
    ELSE 1

\* Store operations a node's fetch issues, given its parent's documents.
OpsFor(node, parentDocs) ==
    IF node.parent = 0 THEN 1
    ELSE IF node.dynamic THEN Len(parentDocs)
    ELSE IF UnbatchablePagination(node) THEN Cardinality(ParentKeys(parentDocs))
    ELSE 1

ParentDocs(n) == IF tree[n].parent = 0 THEN <<>> ELSE docs[tree[n].parent]

\* The documents of node n that match the i-th parent document, in store order.
Matches(n, i) ==
    LET key == ParentDocs(n)[i]
        IsMatch(d) == d = key
    IN SelectSeq(docs[n], IsMatch)

\* An assembler that attaches every relation as an array, whatever its
\* cardinality.
Field_AlwaysArray(n, i) == [kind |-> "array", items |-> Matches(n, i)]

\* What the assembler attaches to the i-th parent document under node n's
\* field: a single nested document (or nothing) for a unique relation, an
\* array for a non-unique one.
Field(n, i) ==
    IF tree[n].unique
    THEN IF Matches(n, i) = <<>> THEN [kind |-> "absent", items |-> <<>>]
         ELSE [kind |-> "document", items |-> <<Matches(n, i)[1]>>]
    ELSE [kind |-> "array", items |-> Matches(n, i)]

\* The defensive check of assembly: a unique relation matched several
\* documents for one parent.
AssemblyInvariantViolation ==
    \E n \in Nodes :
        /\ tree[n].parent # 0 /\ tree[n].unique
        /\ \E i \in 1..Len(ParentDocs(n)) : Len(Matches(n, i)) > 1

\* The assembled result: the root documents and, per node below the root
\* and per parent document, the field attached.
Assemble ==
    [n \in Nodes |->
        IF tree[n].parent = 0 THEN <<>>
        ELSE [i \in 1..Len(ParentDocs(n)) |-> Field(n, i)]]

InitExec ==
    /\ LINK_STORAGE = [c \in Collections |-> NoStorage]
    /\ REDUCER_STORAGE = [c \in Collections |-> NoStorage]
    /\ EXPANDER_STORAGE = [c \in Collections |-> NoStorage]
    /\ last = NoCall
    /\ calls = 0
    /\ race = <<>>
    /\ tree \in Trees
    /\ phase = [n \in DOMAIN tree |-> "waiting"]
    /\ issued = [n \in DOMAIN tree |-> 0]
    /\ docs = [n \in DOMAIN tree |-> <<>>]
    /\ query = QueryState("compiling", 0, "none", 0)
    /\ assembled = NoResult

\* The request body compiles into the tree: execution may start.
Compile ==
    /\ query.status = "compiling"
    /\ query' = [query EXCEPT !.status = "running"]
    /\ UNCHANGED <<tree, phase, issued, docs, assembled, registryVars>>

\* Compilation fails (unresolvable name, depth exceeded, expander cycle):
\* the query ends with that one error.
CompileFail ==
    /\ query.status = "compiling"
    /\ query' = QueryState("failed", 1, "compile", 0)
    /\ UNCHANGED <<tree, phase, issued, docs, assembled, registryVars>>

\* An executor that dispatches a node without waiting for its parent's fetch.
ParentResolved_Eager(n) == TRUE

\* The parent document set of node n is known (the root has the single
\* implicit invocation for parent).
ParentResolved(n) ==
    IF tree[n].parent = 0 THEN TRUE ELSE phase[tree[n].parent] = "resolved"

\* The executor reaches node n, whose parent has resolved, and issues the
\* store operations of its fetch.
Dispatch(n) ==
    /\ query.status = "running"
    /\ phase[n] = "waiting"
    /\ ParentResolved(n)
    /\ issued' = [issued EXCEPT ![n] = OpsFor(tree[n], ParentDocs(n))]
    /\ phase' = [phase EXCEPT ![n] = "fetching"]
    /\ UNCHANGED <<tree, docs, query, assembled, registryVars>>

\* The store answers node n's operations: its documents are known. The
\* operations of a node in flight still complete after the query failed,
\* and what they return is then discarded.
Resolve(n, fetched) ==
    /\ phase[n] = "fetching"
    /\ issued[n] = 0 => fetched = <<>>
    /\ docs' = IF query.status = "failed" THEN docs ELSE [docs EXCEPT ![n] = fetched]
    /\ phase' = [phase EXCEPT ![n] = "resolved"]
    /\ UNCHANGED <<tree, issued, query, assembled, registryVars>>

\* A query that surfaces every store failure as an error of its own.
Failed_EachSurfaced(q, n) == QueryState("failed", q.errors + 1, "store", n)

\* What a store failure on node n makes of the query: the first one fails
\* it with one error; the query is failed already for any later one.
Failed(q, n) ==
    IF q.status = "running" THEN QueryState("failed", q.errors + 1, "store", n) ELSE q

\* One of node n's store operations fails.
Fail(n) ==
    /\ phase[n] = "fetching"
    /\ issued[n] > 0
    /\ phase' = [phase EXCEPT ![n] = "failed"]
    /\ query' = Failed(query, n)
    /\ UNCHANGED <<tree, issued, docs, assembled, registryVars>>

\* Every node has resolved: the results are assembled into the tree handed
\* to the caller, or the defensive check fails the query.
Finish ==
    /\ query.status = "running"
    /\ \A n \in Nodes : phase[n] = "resolved"
    /\ IF AssemblyInvariantViolation
       THEN /\ query' = QueryState("failed", query.errors + 1, "assembly", 0)
            /\ UNCHANGED assembled
       ELSE /\ query' = [query EXCEPT !.status = "done"]
            /\ assembled' = Assemble
    /\ UNCHANGED <<tree, phase, issued, docs, registryVars>>

NextExec ==
    \/ Compile
    \/ CompileFail
    \/ \E n \in Nodes : Dispatch(n)
    \/ \E n \in Nodes, fetched \in FetchResults : Resolve(n, fetched)
    \/ \E n \in Nodes : Fail(n)
    \/ Finish

SpecExec == InitExec /\ [][NextExec]_vars

\* --------------------------------------------------- registry vocabulary

\* The names registered (own keys) in each storage of a collection.
LinkNames(c) == DOMAIN LINK_STORAGE[c].own

ReducerNames(c) == DOMAIN REDUCER_STORAGE[c].own

ExpanderNames(c) == DOMAIN EXPANDER_STORAGE[c].own

\* The entries (own keys with their values) of the three storages.
Entries == [c \in Collections |->
              <<LINK_STORAGE[c].own, REDUCER_STORAGE[c].own, EXPANDER_STORAGE[c].own>>]

AddOps == {"addLinks", "addReducers", "addExpanders"}

\* The step is a call of `op` (every call counts itself in `calls`).
Called(op) == calls' = calls + 1 /\ last'.op = op

\* The names the call just made collides with: keys of its data object that
\* were registered, before the call, in a namespace the operation shares.
CollidingKeys ==
    LET c == last'.collection
        keys == KeysOf(last'.data)
    IN CASE last'.op = "addLinks" -> keys \cap LinkNames(c)
         [] last'.op = "addReducers" -> keys \cap (LinkNames(c) \cup ReducerNames(c))
         [] last'.op = "addExpanders" -> keys \cap ExpanderNames(c)
         [] OTHER -> {}

\* ------------------------------------------------------------------ claims

\* C1: relations and reducers share one namespace per collection: in no
\* reachable state is a name at once a registered link and a registered
\* reducer of the same collection.
C1_SharedNamespace ==
    \A c \in Collections : LinkNames(c) \cap ReducerNames(c) = {}

\* C2: a registration call that fails on a name collision leaves the link,
\* reducer and expander entries of every collection as they were before the
\* call, also when the colliding name is not the first key processed.
C2_FailedCallChangesNothing ==
    [][(\E op \in AddOps : Called(op)) /\ last'.outcome = "throw" /\ CollidingKeys # {}
          => Entries' = Entries]_vars

\* C3: addLinks on a name that is already a registered link fails, fails with
\* the 'already added' conflict error and no other, and keeps the linker
\* registered before.
C3_DuplicateLinkConflict ==
    [][Called("addLinks") /\ CollidingKeys # {}
          => /\ last'.outcome = "throw"
             /\ last'.error = "LinkAlreadyAdded"
             /\ \A n \in CollidingKeys :
                   /\ n \in DOMAIN LINK_STORAGE'[last'.collection].own
                   /\ LINK_STORAGE'[last'.collection].own[n]
                        = LINK_STORAGE[last'.collection].own[n]]_vars

\* C4: addReducers on a name that is already a registered link or reducer of
\* the collection fails, and the link and reducer entries registered under
\* that name stay as they were.
C4_ReducerCollisionFails ==
    [][Called("addReducers") /\ CollidingKeys # {}
          => /\ last'.outcome = "throw"
             /\ LINK_STORAGE' = LINK_STORAGE
             /\ \A n \in CollidingKeys \cap ReducerNames(last'.collection) :
                   /\ n \in DOMAIN REDUCER_STORAGE'[last'.collection].own
                   /\ REDUCER_STORAGE'[last'.collection].own[n]
                        = REDUCER_STORAGE[last'.collection].own[n]]_vars

\* C4 witness: addReducers has just thrown on a two-key data object whose
\* second key is a registered link, after an earlier reducer registration.
C4_Witness ==
    /\ last.op = "addReducers"
    /\ last.outcome = "throw"
    /\ Len(last.data) = 2
    /\ last.data[2].name \in LinkNames(last.collection)
    /\ last.data[1].name \notin LinkNames(last.collection)

\* C5: expanders are a namespace of their own: addExpanders fails exactly
\* when one of its names is already an expander of the collection, whatever
\* links and reducers exist; addLinks and addReducers succeed for names that
\* are expanders and collide with no link or reducer.
C5_ExpanderNamespace ==
    [][/\ Called("addExpanders")
            => (last'.outcome = "throw" <=> CollidingKeys # {})
       /\ (Called("addLinks") \/ Called("addReducers"))
            /\ KeysOf(last'.data) \subseteq ExpanderNames(last'.collection)
            /\ KeysOf(last'.data)
                 \cap (LinkNames(last'.collection) \cup ReducerNames(last'.collection)) = {}
            => last'.outcome = "return"]_vars

\* C6: for every collection and name, getLinker throws the not-found error
\* exactly when the name is not a registered link and otherwise returns the
\* registered linker; hasLinker is true exactly when getLinker succeeds;
\* lookup throws the same not-found error when the link is absent.
C6_ResolveLinker ==
    \A c \in Collections, n \in Names :
       /\ (getLinker(c, n) = Threw("LinkNotFound")) <=> (n \notin LinkNames(c))
       /\ n \in LinkNames(c) => getLinker(c, n) = Returned(LINK_STORAGE[c].own[n])
       /\ hasLinker(c, n) <=> (getLinker(c, n).outcome = "return")
       /\ n \notin LinkNames(c) => lookup(c, n) = Threw("LinkNotFound")

\* The two raced calls have both run.
RaceOver == race # <<>> /\ \A i \in DOMAIN race : race[i].status # "pending"

\* What the registry holds under the raced name.
RacedEntry ==
    LET call == race[1]
        storage == IF call.op = "addLinks" THEN LINK_STORAGE[call.collection]
                   ELSE REDUCER_STORAGE[call.collection]
    IN IF call.name \in DOMAIN storage.own THEN storage.own[call.name] ELSE Undefined

\* What a raced call registers when it succeeds.
RacedValue(call) ==
    IF call.op = "addLinks" THEN NewLinker(call.collection, call.name, call.config)
    ELSE ConfigValue(call.config)

\* C7: of two addLinks (or two addReducers) calls registering the same name
\* on the same collection, in either order, exactly one succeeds and the
\* other fails, and the registry ends holding the descriptor of the call that
\* succeeded.
C7_ExactlyOneWins ==
    RaceOver =>
        \E i \in DOMAIN race :
            /\ race[i].status = "return"
            /\ \A j \in DOMAIN race \ {i} : race[j].status = "throw"
            /\ RacedEntry = RacedValue(race[i])

\* ---------------------------------------------------------- executor claims

RECURSIVE SumUpTo(_, _)
SumUpTo(f, n) == IF n = 0 THEN 0 ELSE f[n] + SumUpTo(f, n - 1)

\* Store operations issued so far by the execution.
TotalIssued == SumUpTo(issued, Len(issued))

Finished == tree # <<>> /\ \A n \in Nodes : phase[n] = "resolved"

\* Node n needs neither of the two per-parent fallbacks.
Batchable(n) == ~tree[n].dynamic /\ ~UnbatchablePagination(tree[n])

Dispatched(n) == phase[n] # "waiting"

\* C8: a finished execution of a tree with no dynamic node and no limit/skip
\* on a non-unique relation has issued exactly as many store operations as
\* the tree has collection nodes, whatever number of documents each fetched.
C8_OneOperationPerNode ==
    Finished /\ (\A n \in Nodes : Batchable(n)) => TotalIssued = Len(tree)

\* C8 witness: a finished three-node tree without fallback nodes in which a
\* fetch returned several documents and another returned none.
C8_Witness ==
    /\ Finished
    /\ Len(tree) = 3
    /\ \A n \in Nodes : Batchable(n)
    /\ \E n \in Nodes : Children(n) # {} /\ Len(docs[n]) = MaxDocs
    /\ \E n \in Nodes : Len(docs[n]) = 0

\* C9: a dynamic node's fetch issues one store operation per parent document
\* feeding it, and a static child below a dynamic node is fetched with a
\* single store operation over all documents the dynamic node returned.
C9_DynamicPerParent ==
    \A n \in Nodes :
        Dispatched(n) /\ tree[n].parent # 0 =>
            /\ tree[n].dynamic => issued[n] = Len(ParentDocs(n))
            /\ tree[tree[n].parent].dynamic /\ Batchable(n) => issued[n] = 1

\* C9 witness: a dynamic node fed by two parent documents with the same key
\* has fetched two documents, and its static child has been dispatched.
C9_Witness ==
    \E n, m \in Nodes :
        /\ tree[n].dynamic /\ tree[n].parent # 0
        /\ Len(ParentDocs(n)) = 2 /\ Cardinality(ParentKeys(ParentDocs(n))) = 1
        /\ tree[m].parent = n /\ Batchable(m) /\ Dispatched(m)
        /\ Len(docs[n]) = 2

RECURSIVE Ancestors(_)
Ancestors(n) ==
    IF tree[n].parent = 0 THEN {} ELSE {tree[n].parent} \cup Ancestors(tree[n].parent)

\* C11: no store operation of a node is dispatched before its parent's
\* fetch has fully resolved; siblings, and the per-parent operations of a
\* fallback node, are free to be in flight together.
C11_ParentBeforeChild ==
    \A n \in Nodes :
        tree[n].parent # 0 /\ (Dispatched(n) \/ issued[n] > 0)
            => phase[tree[n].parent] = "resolved"

\* C11 witness: two siblings are being fetched at once, one of them a
\* fallback node with two per-parent operations in flight.
C11_Witness ==
    \E n, m \in Nodes :
        /\ n # m /\ tree[n].parent = tree[m].parent /\ tree[n].parent # 0
        /\ phase[n] = "fetching" /\ phase[m] = "fetching"
        /\ ~Batchable(n) /\ issued[n] = 2

\* C12: a store failure on any node fails the whole query with exactly one
\* error and no result, whatever siblings completed, and nothing is
\* dispatched for the descendants of the failed node; a compile-time failure
\* issues no store operation at all.
C12_FailureAbortsQuery ==
    /\ query.errors <= 1
    /\ query.status = "failed" => query.errors = 1 /\ assembled = NoResult
    /\ query.status # "done" => assembled = NoResult
    /\ \A n \in Nodes :
          phase[n] = "failed" =>
              /\ query.status = "failed"
              /\ \A m \in Nodes :
                    n \in Ancestors(m) => phase[m] = "waiting" /\ issued[m] = 0
    /\ query.failure = "compile" => TotalIssued = 0

\* C12 witness: the store failed two sibling fetches, one after the other,
\* while their parent's documents had been fetched.
C12_Witness ==
    \E n, m \in Nodes :
        /\ n # m /\ tree[n].parent = tree[m].parent /\ tree[n].parent # 0
        /\ phase[n] = "failed" /\ phase[m] = "failed"
        /\ query.failure = "store" /\ query.failedNode = n
        /\ Len(docs[tree[n].parent]) > 0

ReadOps == {"getLinker", "hasLinker", "lookup", "getReducerConfig", "getExpanderConfig"}

\* Collection c holds nothing any read can find.
NothingFound(c) ==
    \A n \in Names :
        /\ ~hasLinker(c, n)
        /\ getLinker(c, n) = Threw("LinkNotFound")
        /\ getReducerConfig(c, n) = Undefined
        /\ getExpanderConfig(c, n) = Undefined

\* C14: clear(collection) empties the three maps in any state: right after
\* it hasLinker is false and getLinker fails for every name, getReducerConfig
\* and getExpanderConfig return nothing for every name, and the names that
\* were registered (names outside Object.prototype: no other name can ever
\* be registered) register again without a conflict.
C14_ClearEmpties ==
    [][\A c \in Collections :
          /\ Called("clear") /\ last'.collection = c
                => Entries'[c] = <<NoStorage.own, NoStorage.own, NoStorage.own>>
                   /\ NothingFound(c)'
          /\ last.op = "clear" /\ last.collection = c
                /\ (\E op \in AddOps : Called(op)) /\ last'.collection = c
                /\ KeysOf(last'.data) \subseteq PlainNames
                => last'.outcome = "return"]_vars

\* C15: registries are per collection: a call on one collection leaves the
\* three storages of every other collection as they were, and a name
\* registered on another collection registers on this one without conflict.
C15_PerCollection ==
    [][\A c \in Collections :
          calls' = calls + 1 /\ last'.collection = c =>
              /\ \A b \in Collections \ {c} :
                    /\ LINK_STORAGE'[b] = LINK_STORAGE[b]
                    /\ REDUCER_STORAGE'[b] = REDUCER_STORAGE[b]
                    /\ EXPANDER_STORAGE'[b] = EXPANDER_STORAGE[b]
              /\ \A b \in Collections \ {c} :
                    /\ CollidingKeys = {}
                    /\ \/ last'.op = "addLinks" /\ KeysOf(last'.data) \subseteq LinkNames(b)
                       \/ last'.op = "addReducers"
                            /\ KeysOf(last'.data) \subseteq ReducerNames(b)
                       \/ last'.op = "addExpanders"
                            /\ KeysOf(last'.data) \subseteq ExpanderNames(b)
                    => last'.outcome = "return"]_vars

\* C15 witness: addLinks has just registered, on one collection, a name that
\* is a link of the other collection too, each with its own linker.
C15_Witness ==
    /\ last.op = "addLinks" /\ last.outcome = "return"
    /\ \E b \in Collections \ {last.collection}, n \in KeysOf(last.data) :
          /\ n \in LinkNames(b) /\ n \in LinkNames(last.collection)
          /\ LINK_STORAGE[b].own[n] # LINK_STORAGE[last.collection].own[n]

\* C16: the read operations leave the registry as it was, whether they
\* return a value, return nothing or throw: no storage of any collection
\* changes, and none is created.
C16_ReadsChangeNothing ==
    [][(\E op \in ReadOps : Called(op)) => storages' = storages]_vars

\* C16 witness: lookup has just thrown on a collection that has no link
\* storage, and still has none.
C16_Witness ==
    /\ last.op = "lookup" /\ last.outcome = "throw"
    /\ ~LINK_STORAGE[last.collection].defined

\* C17: registration fails only on a real collision: addLinks under names
\* that are neither registered links nor reducers of the collection succeeds,
\* for every name string, names inherited from Object.prototype included;
\* and for a name never registered hasLinker is false and getReducerConfig
\* and getExpanderConfig return nothing.
C17_OnlyRealCollisions ==
    [][/\ Called("addLinks")
          /\ KeysOf(last'.data)
               \cap (LinkNames(last'.collection) \cup ReducerNames(last'.collection)) = {}
          => last'.outcome = "return"
       /\ \A c \in Collections, n \in Names :
             /\ n \notin LinkNames(c) => ~hasLinker(c, n)
             /\ n \notin ReducerNames(c) => getReducerConfig(c, n) = Undefined
             /\ n \notin ExpanderNames(c) => getExpanderConfig(c, n) = Undefined]_vars

\* C18: registrations are stable until clear: across every call that is not
\* a clear of the collection, each registered link, reducer and expander
\* stays registered with the very same value and resolves to it.
C18_StableUntilClear ==
    [][\A c \in Collections :
          ~(Called("clear") /\ last'.collection = c) =>
              /\ \A n \in LinkNames(c) :
                    /\ n \in DOMAIN LINK_STORAGE'[c].own
                    /\ LINK_STORAGE'[c].own[n] = LINK_STORAGE[c].own[n]
                    /\ getLinkerIn(LINK_STORAGE'[c], n) = Returned(LINK_STORAGE[c].own[n])
              /\ \A n \in ReducerNames(c) :
                    /\ n \in DOMAIN REDUCER_STORAGE'[c].own
                    /\ getConfigIn(REDUCER_STORAGE'[c], n) = REDUCER_STORAGE[c].own[n]
              /\ \A n \in ExpanderNames(c) :
                    /\ n \in DOMAIN EXPANDER_STORAGE'[c].own
                    /\ getConfigIn(EXPANDER_STORAGE'[c], n) = EXPANDER_STORAGE[c].own[n]]_vars

\* C18 witness: a registration call has just thrown on a name that is a
\* registered link, and the link still resolves.
C18_Witness ==
    /\ last.op \in AddOps /\ last.outcome = "throw"
    /\ \E n \in KeysOf(last.data) \cap LinkNames(last.collection) :
          getLinker(last.collection, n) = Returned(LINK_STORAGE[last.collection].own[n])

====
